---- MODULE Spec2Model ----
(***************************************************************************)
(* A model of src/main.py: the reachability prober (test_single), the      *)
(* probe scheduler (V2RayPingTester.run), the geo classifier               *)
(* (get_country_and_flag) and the labeling / grouping / writing stage of   *)
(* main.                                                                   *)
(*                                                                         *)
(* Text is a sequence of characters.  A character is a one-letter string;  *)
(* a code point outside ASCII is spelled "U+XXXX" and is one character.    *)
(***************************************************************************)
EXTENDS Integers, Sequences, FiniteSets, TLC

(***************************************************************************)
(* Python str operations used by the source                                *)
(***************************************************************************)

\* s.find(sep): the first position at which sep occurs in s, 0 when none
Find(s, sep) ==
    LET hits == {i \in 1..(Len(s) - Len(sep) + 1) : SubSeq(s, i, i + Len(sep) - 1) = sep}
    IN  IF hits = {} THEN 0 ELSE CHOOSE i \in hits : \A j \in hits : i <= j

\* s.rfind(sep): the last position at which sep occurs in s, 0 when none
RFind(s, sep) ==
    LET hits == {i \in 1..(Len(s) - Len(sep) + 1) : SubSeq(s, i, i + Len(sep) - 1) = sep}
    IN  IF hits = {} THEN 0 ELSE CHOOSE i \in hits : \A j \in hits : i >= j

\* sep in s
Contains(s, sep) == Find(s, sep) # 0

\* s.split(c) for a separator of one character: the pieces between its occurrences
SplitChar(s, c) ==
    LET Hit(i) == s[i] = c
        cuts   == SelectSeq([i \in 1..Len(s) |-> i], Hit)
        lo(k)  == IF k = 1 THEN 1 ELSE cuts[k - 1] + 1
        hi(k)  == IF k > Len(cuts) THEN Len(s) ELSE cuts[k] - 1
    IN  [k \in 1..(Len(cuts) + 1) |-> SubSeq(s, lo(k), hi(k))]

\* s.split(sep): the pieces between the non-overlapping occurrences of sep,
\* scanned left to right; always at least one piece
RECURSIVE PySplit(_, _)
PySplit(s, sep) ==
    IF Len(sep) = 1 THEN SplitChar(s, sep[1])
    ELSE LET p == Find(s, sep)
         IN  IF p = 0 THEN <<s>>
             ELSE <<SubSeq(s, 1, p - 1)>> \o PySplit(SubSeq(s, p + Len(sep), Len(s)), sep)

\* s.rsplit(sep, 1): split once, at the last occurrence of sep
PyRSplit1(s, sep) ==
    LET p == RFind(s, sep)
    IN  IF p = 0 THEN <<s>>
        ELSE <<SubSeq(s, 1, p - 1), SubSeq(s, p + Len(sep), Len(s))>>

\* s.strip(chars): drop leading and trailing characters that are in chars
PyStrip(s, chars) ==
    LET keep == {i \in 1..Len(s) : s[i] \notin chars}
    IN  IF keep = {} THEN <<>>
        ELSE LET lo == CHOOSE i \in keep : \A j \in keep : i <= j
                 hi == CHOOSE i \in keep : \A j \in keep : i >= j
             IN  SubSeq(s, lo, hi)

\* concatenation of a sequence of texts (by halves)
RECURSIVE Concat(_)
Concat(ss) ==
    IF Len(ss) = 0 THEN <<>>
    ELSE IF Len(ss) = 1 THEN ss[1]
    ELSE LET h == Len(ss) \div 2
         IN  Concat(SubSeq(ss, 1, h)) \o Concat(SubSeq(ss, h + 1, Len(ss)))

\* sep.join(ss)
RECURSIVE PyJoin(_, _)
PyJoin(sep, ss) ==
    IF ss = <<>> THEN <<>>
    ELSE IF Len(ss) = 1 THEN ss[1]
    ELSE ss[1] \o sep \o PyJoin(sep, Tail(ss))

Digits == <<"0", "1", "2", "3", "4", "5", "6", "7", "8", "9">>
IsDigit(c) == \E d \in 1..10 : Digits[d] = c
DigitVal(c) == (CHOOSE d \in 1..10 : Digits[d] = c) - 1
Whitespace == {" ", "\t", "\n"}

\* the value of a non-empty run of decimal digits
RECURSIVE DecVal(_)
DecVal(ds) ==
    IF ds = <<>> THEN 0 ELSE 10 * DecVal(SubSeq(ds, 1, Len(ds) - 1)) + DigitVal(ds[Len(ds)])

\* int(s) for a str: surrounding whitespace is dropped, one sign is allowed,
\* single underscores may separate digits; anything else is a ValueError
PyInt(s) ==
    LET t    == PyStrip(s, Whitespace)
        sgn  == IF t # <<>> /\ t[1] \in {"+", "-"} THEN t[1] ELSE ""
        body == IF sgn = "" THEN t ELSE Tail(t)
        wellFormed ==
            /\ body # <<>>
            /\ \A i \in 1..Len(body) : IsDigit(body[i]) \/ body[i] = "_"
            /\ IsDigit(body[1]) /\ IsDigit(body[Len(body)])
            /\ \A i \in 1..(Len(body) - 1) : ~(body[i] = "_" /\ body[i + 1] = "_")
        ds   == SelectSeq(body, IsDigit)
    IN  IF wellFormed
        THEN [ok |-> TRUE, val |-> IF sgn = "-" THEN 0 - DecVal(ds) ELSE DecVal(ds)]
        ELSE [ok |-> FALSE, val |-> 0]

(***************************************************************************)
(* test_single, lines 77-91: from the descriptor to the connect target     *)
(***************************************************************************)

SchemeSep == <<":", "/", "/">>
DefaultPort == 443

\* line 78
UriPart(config) == PySplit(config, SchemeSep)[2]

\* line 79
HostPart(config) == PySplit(PySplit(UriPart(config), <<"#">>)[1], <<"?">>)[1]

\* lines 81-84
HostPortStr(config) ==
    LET host_part == HostPart(config)
    IN  IF Contains(host_part, <<"@">>)
        THEN PySplit(host_part, <<"@">>)[2]
        ELSE host_part

\* lines 77-91: what the statements before the connect call produce:
\* "noscheme" (return None at line 77), "valueerror" (int() raises at line 88,
\* caught at line 99) or "target" with the host and port given to the connect.
ParseTarget(config) ==
    IF ~Contains(config, SchemeSep) THEN [kind |-> "noscheme", host |-> <<>>, port |-> 0]
    ELSE LET host_port_str == HostPortStr(config)
         IN  IF Contains(host_port_str, <<":">>)
             THEN LET parts == PyRSplit1(host_port_str, <<":">>)
                      n     == PyInt(parts[2])
                  IN  IF n.ok
                      THEN [kind |-> "target",
                            host |-> PyStrip(parts[1], {"[", "]"}),
                            port |-> n.val]
                      ELSE [kind |-> "valueerror", host |-> <<>>, port |-> 0]
             ELSE [kind |-> "target", host |-> host_port_str, port |-> DefaultPort]

(***************************************************************************)
(* Characters and their code points (ord / chr), UTF-8, urllib quote       *)
(***************************************************************************)

\* the printable ASCII characters, in code-point order from 32 (space) to 126
\* (the grave accent, which a string of this language cannot hold, is spelled U+0060)
Ascii ==
    <<" ", "!", "\"", "#", "$", "%", "&", "'", "(", ")", "*", "+", ",", "-", ".", "/",
      "0", "1", "2", "3", "4", "5", "6", "7", "8", "9", ":", ";", "<", "=", ">", "?",
      "@", "A", "B", "C", "D", "E", "F", "G", "H", "I", "J", "K", "L", "M", "N", "O",
      "P", "Q", "R", "S", "T", "U", "V", "W", "X", "Y", "Z", "[", "\\", "]", "^", "_",
      "U+0060", "a", "b", "c", "d", "e", "f", "g", "h", "i", "j", "k", "l", "m", "n", "o",
      "p", "q", "r", "s", "t", "u", "v", "w", "x", "y", "z", "{", "|", "}", "~">>

\* the characters outside printable ASCII that the model uses, with their code points:
\* the globe, the high-voltage sign and its variation selector, and the regional
\* indicator symbols of U, S
NonAscii ==
    << <<"\n", 10>>, <<"\t", 9>>,
       <<"U+1F310", 127760>>, <<"U+26A1", 9889>>, <<"U+FE0F", 65039>>,
       <<"U+1F1F8", 127480>>, <<"U+1F1FA", 127482>> >>

\* every character of the model with its code point
CodePoints ==
    {<<Ascii[k], k + 31>> : k \in 1..Len(Ascii)} \cup {NonAscii[k] : k \in 1..Len(NonAscii)}
OrdTable == [c \in {p[1] : p \in CodePoints} |-> (CHOOSE p \in CodePoints : p[1] = c)[2]]
ChrTable == [n \in {p[2] : p \in CodePoints} |-> (CHOOSE p \in CodePoints : p[2] = n)[1]]

\* ord(c)
Ord(c) == OrdTable[c]

\* chr(n)
Chr(n) == ChrTable[n]

\* str.upper() of one character (ASCII letters)
Upper(c) == IF Ord(c) >= 97 /\ Ord(c) <= 122 THEN Chr(Ord(c) - 32) ELSE c

\* the UTF-8 bytes of a code point
Utf8(n) ==
    IF n < 128 THEN <<n>>
    ELSE IF n < 2048 THEN <<192 + (n \div 64), 128 + (n % 64)>>
    ELSE IF n < 65536
         THEN <<224 + (n \div 4096), 128 + ((n \div 64) % 64), 128 + (n % 64)>>
         ELSE <<240 + (n \div 262144), 128 + ((n \div 4096) % 64),
                128 + ((n \div 64) % 64), 128 + (n % 64)>>

\* s.encode(): the UTF-8 bytes of a text
Encode(s) == Concat([k \in 1..Len(s) |-> Utf8(Ord(s[k]))])

HexDigits == <<"0", "1", "2", "3", "4", "5", "6", "7", "8", "9", "A", "B", "C", "D", "E", "F">>

\* "%XX" for one byte
PercentByte(b) == <<"%", HexDigits[(b \div 16) + 1], HexDigits[(b % 16) + 1]>>

PercentBytes(bs) == Concat([k \in 1..Len(bs) |-> PercentByte(bs[k])])

\* the characters urllib.parse.quote leaves alone: letters, digits, "_.-~" and
\* the default safe character "/"
QuoteSafe(c) ==
    LET n == Ord(c)
    IN  \/ n >= 48 /\ n <= 57
        \/ n >= 65 /\ n <= 90
        \/ n >= 97 /\ n <= 122
        \/ c \in {"_", ".", "-", "~", "/"}

\* urllib.parse.quote(s)
quote(s) ==
    Concat([k \in 1..Len(s) |->
               IF QuoteSafe(s[k]) THEN <<s[k]>> ELSE PercentBytes(Utf8(Ord(s[k])))])

\* the value of a hexadecimal digit, of either case
HexTable ==
    [c \in {HexDigits[i] : i \in 1..16} \cup {"a", "b", "c", "d", "e", "f"} |->
        IF c \in {HexDigits[i] : i \in 1..16}
        THEN (CHOOSE i \in 1..16 : HexDigits[i] = c) - 1
        ELSE (CHOOSE i \in 11..16 : HexDigits[i] = Upper(c)) - 1]

\* bytes.decode(): the text of well-formed UTF-8 bytes, one character for each
\* lead byte; a byte sequence that is no character of the model is U+FFFD
Decode(bs) ==
    LET IsLead(i) == bs[i] < 128 \/ bs[i] >= 192
        leads     == SelectSeq([i \in 1..Len(bs) |-> i], IsLead)
        cont(i)   == IF i <= Len(bs) THEN bs[i] % 64 ELSE 0
        point(i)  == IF bs[i] < 128 THEN bs[i]
                     ELSE IF bs[i] < 224 THEN (bs[i] - 192) * 64 + cont(i + 1)
                     ELSE IF bs[i] < 240
                          THEN (bs[i] - 224) * 4096 + cont(i + 1) * 64 + cont(i + 2)
                          ELSE (bs[i] - 240) * 262144 + cont(i + 1) * 4096
                               + cont(i + 2) * 64 + cont(i + 3)
    IN  [k \in 1..Len(leads) |->
            IF point(leads[k]) \in DOMAIN ChrTable THEN Chr(point(leads[k])) ELSE "U+FFFD"]

\* what a client reading a descriptor's fragment computes, urllib.parse.unquote
\* on ASCII text: the text is split at "%"; a piece after the first that begins
\* with two hexadecimal digits gives that byte and the rest of the piece, any
\* other gives "%" and the piece; the bytes are decoded as UTF-8
unquote(s) ==
    LET bits     == PySplit(s, <<"%">>)
        ords(t)  == [k \in 1..Len(t) |-> Ord(t[k])]
        piece(k) ==
            LET item == bits[k]
            IN  IF k = 1 THEN ords(item)
                ELSE IF Len(item) >= 2 /\ item[1] \in DOMAIN HexTable /\ item[2] \in DOMAIN HexTable
                     THEN <<16 * HexTable[item[1]] + HexTable[item[2]]>>
                          \o ords(SubSeq(item, 3, Len(item)))
                     ELSE <<37>> \o ords(item)
    IN  Decode(Concat([k \in 1..Len(bits) |-> piece(k)]))

\* base64.b64encode(bs).decode(): three bytes become four characters of the
\* standard alphabet, the last group padded with "="
B64Alphabet ==
    <<"A", "B", "C", "D", "E", "F", "G", "H", "I", "J", "K", "L", "M", "N", "O", "P",
      "Q", "R", "S", "T", "U", "V", "W", "X", "Y", "Z", "a", "b", "c", "d", "e", "f",
      "g", "h", "i", "j", "k", "l", "m", "n", "o", "p", "q", "r", "s", "t", "u", "v",
      "w", "x", "y", "z", "0", "1", "2", "3", "4", "5", "6", "7", "8", "9", "+", "/">>

\* a mutant of b64encode: the bytes after the last whole group of three are dropped
b64encode_whole_groups(bs) ==
    LET groups == Len(bs) \div 3
        char(j) ==
            LET g  == (j - 1) \div 4
                r  == (j - 1) % 4
                b1 == bs[3 * g + 1]
                b2 == bs[3 * g + 2]
                b3 == bs[3 * g + 3]
            IN  IF r = 0 THEN B64Alphabet[(b1 \div 4) + 1]
                ELSE IF r = 1 THEN B64Alphabet[((b1 % 4) * 16 + (b2 \div 16)) + 1]
                ELSE IF r = 2 THEN B64Alphabet[((b2 % 16) * 4 + (b3 \div 64)) + 1]
                ELSE B64Alphabet[(b3 % 64) + 1]
    IN  [j \in 1..(4 * groups) |-> char(j)]

b64encode(bs) ==
    LET n      == Len(bs)
        groups == (n + 2) \div 3
        byte(k) == IF k <= n THEN bs[k] ELSE 0
        char(j) ==
            LET g  == (j - 1) \div 4
                r  == (j - 1) % 4
                b1 == byte(3 * g + 1)
                b2 == byte(3 * g + 2)
                b3 == byte(3 * g + 3)
            IN  IF r = 0 THEN B64Alphabet[(b1 \div 4) + 1]
                ELSE IF r = 1 THEN B64Alphabet[((b1 % 4) * 16 + (b2 \div 16)) + 1]
                ELSE IF r = 2
                     THEN IF 3 * g + 2 > n THEN "="
                          ELSE B64Alphabet[((b2 % 16) * 4 + (b3 \div 64)) + 1]
                     ELSE IF 3 * g + 3 > n THEN "=" ELSE B64Alphabet[(b3 % 64) + 1]
    IN  [j \in 1..(4 * groups) |-> char(j)]

\* the value of each character of the alphabet
B64Index == [c \in {B64Alphabet[i] : i \in 1..64} |-> (CHOOSE i \in 1..64 : B64Alphabet[i] = c) - 1]

B64Chars == DOMAIN B64Index \cup {"="}

\* what a consumer of base64/all_sub.txt computes, base64.b64decode(s) on text
\* of the alphabet and "=": four characters become three bytes, less one for
\* each "=" of the last group; text that is not whole groups is an error
B64Error == <<-1>>
b64decode(s) ==
    LET n   == Len(s)
        pad == IF n >= 2 /\ s[n] = "=" /\ s[n - 1] = "=" THEN 2
               ELSE IF n >= 1 /\ s[n] = "=" THEN 1 ELSE 0
        val(j) == IF s[j] = "=" THEN 0 ELSE B64Index[s[j]]
        byte(k) ==
            LET g  == (k - 1) \div 3
                r  == (k - 1) % 3
                c1 == val(4 * g + 1)
                c2 == val(4 * g + 2)
                c3 == val(4 * g + 3)
                c4 == val(4 * g + 4)
            IN  IF r = 0 THEN c1 * 4 + (c2 \div 16)
                ELSE IF r = 1 THEN (c2 % 16) * 16 + (c3 \div 4)
                ELSE (c3 % 4) * 64 + c4
    IN  IF n % 4 # 0 \/ \E j \in 1..n : s[j] \notin B64Chars
        THEN B64Error
        ELSE [k \in 1..(3 * (n \div 4) - pad) |-> byte(k)]

(***************************************************************************)
(* Bounds and inputs of the model                                          *)
(***************************************************************************)

\* the number of descriptors given to one run
NumConfigs == 3
\* the size of the worker pool: the model's scale of the source's 200
MaxThreads == 2
\* the length of the text after "scheme://" in the exhaustive inputs of test_single
MaxTail == 3

\* v://a@h:80#o : credentials, a port, a display-name fragment
D1 == <<"v", ":", "/", "/", "a", "@", "h", ":", "8", "0", "#", "o">>
\* v://[::1]:8443 : a bracketed IPv6 literal, the scheme of D1
D2 == <<"v", ":", "/", "/", "[", ":", ":", "1", "]", ":", "8", "4", "4", "3">>
\* a#b://h : a "#" before the scheme separator, no port
D3 == <<"a", "#", "b", ":", "/", "/", "h">>
\* v:/h : no scheme separator
D4 == <<"v", ":", "/", "h">>

\* The descriptors a run can be given.  get_sources (lines 46-65) returns the
\* elements of a set as a list: descriptors are distinct, and their order is
\* arbitrary but fixed for the run; the model takes it to be the order of Pool.
Pool == <<D1, D2, D3, D4>>

SubPool(S) ==
    LET nth(k) == CHOOSE x \in S : Cardinality({y \in S : y < x}) = k - 1
    IN  [k \in 1..Cardinality(S) |-> Pool[nth(k)]]

ConfigLists == {SubPool(S) : S \in {T \in SUBSET (1..Len(Pool)) : Cardinality(T) <= NumConfigs}}

\* elapsed times of a successful connect, in microseconds
Elapsed == {1600, 2400}

\* settings.json "brands" (line 28): an empty list, or two brands
V2XCore == <<"V", "2", "X", "C", "o", "r", "e">>
BrandPools == {<<>>, <<V2XCore, <<"X", "C">>>>}

\* line 29 with no "emojis" key in settings.json: the default list
EMOJIS_LIST == << <<"U+26A1", "U+FE0F">> >>

\* the country codes the lookup database answers with
US == <<"U", "S">>
Countries == {US}

\* the inputs of test_single taken alone: every text of up to MaxTail characters,
\* bare and after "v://", and some longer ones around the port's range
TailChars == {"h", ":", "@", "#", "?", "[", "]", "8", "0", "-", "/"}
Tails == UNION {[1..k -> TailChars] : k \in 0..MaxTail}
LongInputs ==
    { <<"v", ":", "/", "/", "h", ":", "6", "5", "5", "3", "5">>,
      <<"v", ":", "/", "/", "h", ":", "6", "5", "5", "3", "6">>,
      <<"v", ":", "/", "/", "u", "@", "w", "@", "h", ":", "8", "0">>,
      <<"v", ":", "/", "/", "h", ":", " ", "+", "8", "_", "0", " ", "?", "q">>,
      D1, D2, D3, D4 }
TestInputs == Tails \cup {<<"v">> \o SchemeSep \o t : t \in Tails} \cup LongInputs

(***************************************************************************)
(* test_single, lines 93-100: the connect and what the call returns        *)
(***************************************************************************)

\* None
None == [ok |-> FALSE, config |-> <<>>, ping |-> 0, host |-> <<>>]

\* line 95: int((time.time() - start_time) * 1000), the elapsed time being us
\* microseconds; int() truncates towards zero
PingMs(us) == IF us >= 0 THEN us \div 1000 ELSE 0 - ((0 - us) \div 1000)

\* line 96
ProbeResult(config, us, host) == [ok |-> TRUE, config |-> config, ping |-> PingMs(us), host |-> host]

\* lines 94-100: socket.create_connection((host, port)) either raises, and the
\* call returns None (lines 97-100), or connects, and the call returns the
\* result of line 96.  No connection is made to a port outside 1..65535.
ConnectReturns(config, target) ==
    {None} \cup
    (IF target.port >= 1 /\ target.port <= 65535
     THEN {ProbeResult(config, us, target.host) : us \in Elapsed}
     ELSE {})

\* lines 76-100: the values test_single(config) can return
TestSingleReturns(config) ==
    LET target == ParseTarget(config)
    IN  IF target.kind = "target" THEN ConnectReturns(config, target) ELSE {None}

\* the same for each descriptor a run can be given, computed once
PoolReturns == [config \in {Pool[i] : i \in 1..Len(Pool)} |-> TestSingleReturns(config)]

(***************************************************************************)
(* run, line 116: sorted(reachable_configs, key=lambda x: x['ping'])       *)
(***************************************************************************)

\* one element put after every element whose key is not greater: sorted() is stable
InsertByPing(xs, r) ==
    LET k == Cardinality({j \in 1..Len(xs) : xs[j].ping <= r.ping})
    IN  SubSeq(xs, 1, k) \o <<r>> \o SubSeq(xs, k + 1, Len(xs))

RECURSIVE SortFrom(_, _)
SortFrom(done, rest) ==
    IF rest = <<>> THEN done ELSE SortFrom(InsertByPing(done, Head(rest)), Tail(rest))

\* a mutant of sorted_by_ping: the list is returned as accumulated
returned_unsorted(xs) == xs

sorted_by_ping(xs) == SortFrom(<<>>, xs)

\* a mutant of Accumulate: the result is appended without the test of line 111
AccumulateAlways(reachable, result) == Append(reachable, result)

\* lines 111-112: if result: reachable_configs.append(result)
Accumulate(reachable, result) == IF result.ok THEN Append(reachable, result) ELSE reachable

\* line 72, and line 105: ThreadPoolExecutor(max_workers=self.max_threads)
max_threads == MaxThreads

\* a mutant of WorkerAvailable: a thread per work item, without a ceiling
WorkerAlwaysAvailable(busy) == TRUE

\* the pool starts a work item only on a worker thread, of which there are at
\* most max_workers
WorkerAvailable(busy) == Cardinality(busy) < max_threads

(***************************************************************************)
(* get_country_and_flag and the labeling loop of main                      *)
(***************************************************************************)

Unknown == <<"U", "n", "k", "n", "o", "w", "n">>
Unk == <<"U", "n", "k", ".">>
Globe == <<"U+1F310">>

\* what geo_reader.country(ip) does: answers with a record whose iso_code is a
\* country code or None (here the empty text), raises AddressNotFoundError or
\* ValueError ("notfound"), or raises another error ("error")
Lookups ==
    {[kind |-> "country", iso_code |-> c] : c \in Countries \cup {<<>>}}
    \cup {[kind |-> "notfound", iso_code |-> <<>>], [kind |-> "error", iso_code |-> <<>>]}
NoLookup == [kind |-> "unused", iso_code |-> <<>>]

\* line 126
Flag(country_code) ==
    [k \in 1..Len(country_code) |-> Chr(Ord(Upper(country_code[k])) + 127397)]

Tag(country, flag) == [raised |-> FALSE, country |-> country, flag |-> flag]
Raised == [raised |-> TRUE, country |-> <<>>, flag |-> <<>>]

\* a mutant of get_country_and_flag: line 129 does not catch the lookup's miss
get_country_and_flag_uncaught(ip_address, geo_reader, lookup) ==
    IF ip_address = <<>> \/ geo_reader = "none" THEN Tag(Unknown, Globe)
    ELSE IF lookup.kind = "country" /\ lookup.iso_code # <<>>
         THEN Tag(lookup.iso_code, Flag(lookup.iso_code))
    ELSE IF lookup.kind = "country" THEN Tag(Unknown, Globe)
    ELSE Raised

\* lines 118-130; geo_reader is "none" for None, lookup is the database's answer
get_country_and_flag(ip_address, geo_reader, lookup) ==
    IF ip_address = <<>> \/ geo_reader = "none" THEN Tag(Unknown, Globe)
    ELSE IF lookup.kind = "country"
         THEN IF lookup.iso_code # <<>>
              THEN Tag(lookup.iso_code, Flag(lookup.iso_code))
              ELSE Tag(Unknown, Globe)
    ELSE IF lookup.kind = "notfound" THEN Tag(Unknown, Globe)
    ELSE Raised

\* the address socket.gethostbyname returns when it returns
ResolvedIp == <<"1", ".", "2", ".", "3", ".", "4">>

\* lines 150-154; resolve is "gaierror" when gethostbyname raises it, "ip" otherwise
GeoTag(resolve, geo_reader, lookup) ==
    IF resolve = "gaierror" THEN Tag(Unk, Globe)
    ELSE get_country_and_flag(ResolvedIp, geo_reader, lookup)

\* the outcomes of name resolution and lookup an iteration can meet
GeoCases(geo_reader) ==
    {[resolve |-> "gaierror", lookup |-> NoLookup]}
    \cup (IF geo_reader = "open"
          THEN {[resolve |-> "ip", lookup |-> l] : l \in Lookups}
          ELSE {[resolve |-> "ip", lookup |-> NoLookup]})

\* line 149: enumerate(final_results, 1); position counts from 1
EnumerateStart == 1
\* a mutant of Rank: enumerate(final_results), counting from 0
RankFromZero(position) == position - 1
Rank(position) == EnumerateStart + (position - 1)

\* the decimal digits of a natural number
RECURSIVE Decimal(_)
Decimal(n) == IF n < 10 THEN <<Digits[n + 1]>> ELSE Decimal(n \div 10) \o <<Digits[(n % 10) + 1]>>

\* f"{i:03d}"
Pad3(n) ==
    LET d == Decimal(n)
    IN  IF Len(d) >= 3 THEN d ELSE [k \in 1..(3 - Len(d)) |-> "0"] \o d

\* line 160
NewName(flag, country, rank, brand, emoji) ==
    flag \o <<" ">> \o country \o <<" ", "#">> \o Pad3(rank) \o <<" ", "|">> \o brand
         \o <<" ">> \o emoji

\* a mutant of NamedConfig: the original fragment is kept
NamedConfigWithFragment(config, new_name) == config \o <<"#">> \o quote(new_name)

\* lines 162-163
NamedConfig(config, new_name) == PySplit(config, <<"#">>)[1] \o <<"#">> \o quote(new_name)

\* line 168
Proto(named_config) == PySplit(named_config, SchemeSep)[1]

\* a mutant of Truthy: the test of line 142 left out
AlwaysTruthy(xs) == TRUE

\* line 142: if final_results
Truthy(xs) == xs # <<>>

\* a mutant of AppendTo: d[k].insert(0, v)
PrependTo(d, k, v) ==
    [x \in DOMAIN d \cup {k} |-> IF x = k
                                 THEN (IF k \in DOMAIN d THEN <<v>> \o d[k] ELSE <<v>>)
                                 ELSE d[x]]

\* a mutant of AppendTo: d[k] = [v]
AssignTo(d, k, v) == [x \in DOMAIN d \cup {k} |-> IF x = k THEN <<v>> ELSE d[x]]

\* defaultdict(list): d[k].append(v)
AppendTo(d, k, v) ==
    [x \in DOMAIN d \cup {k} |-> IF x = k
                                 THEN (IF k \in DOMAIN d THEN Append(d[k], v) ELSE <<v>>)
                                 ELSE d[x]]

EmptyDict == [x \in {} |-> <<>>]

(***************************************************************************)
(* lines 174-191: the files written                                        *)
(***************************************************************************)

DotTxt == <<".", "t", "x", "t">>
AllSub == <<"a", "l", "l", "_", "s", "u", "b">> \o DotTxt
Newline == <<"\n">>

\* a file is named by its directory under out_dir and its name in it
RegionFiles(by_c) == {<<"regions", k \o DotTxt>> : k \in DOMAIN by_c}
ProtocolFiles(by_p) == {<<"filtered/subs", k \o DotTxt>> : k \in DOMAIN by_p}

\* line 187
AllFinalLinks(results) == [k \in 1..Len(results) |-> results[k].config]

WrittenFiles(by_c, by_p, results) ==
    LET links == PyJoin(Newline, AllFinalLinks(results))
        paths == RegionFiles(by_c) \cup ProtocolFiles(by_p)
                 \cup {<<"v2ray", AllSub>>, <<"base64", AllSub>>}
        key(path) == SubSeq(path[2], 1, Len(path[2]) - Len(DotTxt))
    IN  [path \in paths |->
            IF path[1] = "regions" THEN PyJoin(Newline, by_c[key(path)])
            ELSE IF path[1] = "filtered/subs" THEN PyJoin(Newline, by_p[key(path)])
            ELSE IF path[1] = "v2ray" THEN links
            ELSE b64encode(Encode(links))]

(***************************************************************************)
(* State                                                                   *)
(***************************************************************************)

VARIABLES
    BRANDS_LIST,        \* line 28
    configs,            \* self.configs: the descriptors to test
    pc,                 \* where main is: "run", "returned", "label", "write", "done",
                        \* or "raised" when an exception has left main
    submitted,          \* run: how many descriptors have been submitted (line 106)
    work_queue,         \* the pool's queue of submitted work items not yet started
    running,            \* the work items a worker thread is executing
    fut,                \* the state of each descriptor's future
    fresult,            \* what each descriptor's test_single call returned
    calls,              \* how many times test_single was called for each descriptor
    collected,          \* the futures as_completed has yielded
    reachable_configs,  \* line 104
    final_results,      \* line 140; its dicts are rewritten by line 165
    geo_reader,         \* "unopened", "none" (None), "open", "closed"
    position,           \* the 1-based position of the labeling loop in final_results
    by_country,         \* line 145
    by_protocol,        \* line 146
    labels,             \* what each iteration of the labeling loop computed
    exc,                \* the exception that left main, if one did
    files,              \* the files written, by path
    report,             \* the final signal: "" (none yet), "nothing found", "saved"
    ts_pc,              \* test_single taken alone: "idle", "call", "connect",
                        \* "connected", "returned"
    ts_config,          \* its argument
    ts_target,          \* the target computed by lines 77-91
    ts_connects,        \* the targets handed to socket.create_connection
    ts_sock,            \* the socket of line 94: "none", "open", "closed"
    ts_elapsed,         \* time.time() - start_time at line 95, in microseconds
    ts_result           \* what it returned

run_vars == <<submitted, work_queue, running, fut, fresult, calls, collected, reachable_configs>>
main_vars == <<final_results, geo_reader, position, by_country, by_protocol, labels, exc,
               files, report>>
ts_vars == <<ts_pc, ts_config, ts_target, ts_connects, ts_sock, ts_elapsed, ts_result>>
vars == <<BRANDS_LIST, configs, pc, run_vars, main_vars, ts_vars>>

NoTarget == [kind |-> "none", host |-> <<>>, port |-> 0]
NoExc == [line |-> 0, geo |-> [resolve |-> "none", lookup |-> NoLookup]]

Indices == 1..Len(configs)

\* the state when main calls tester.run() (line 140), for the given descriptors
MainStart(brands, cfgs) ==
    /\ BRANDS_LIST = brands
    /\ configs = cfgs
    /\ submitted = 0
    /\ work_queue = <<>>
    /\ running = {}
    /\ fut = [k \in 1..Len(cfgs) |-> "unsubmitted"]
    /\ fresult = [k \in 1..Len(cfgs) |-> None]
    /\ calls = [k \in 1..Len(cfgs) |-> 0]
    /\ collected = {}
    /\ reachable_configs = <<>>
    /\ final_results = <<>>
    /\ geo_reader = "unopened"
    /\ position = 0
    /\ by_country = EmptyDict
    /\ by_protocol = EmptyDict
    /\ labels = <<>>
    /\ exc = NoExc
    /\ files = EmptyDict
    /\ report = ""

TsIdle ==
    /\ ts_pc = "idle"
    /\ ts_config = <<>>
    /\ ts_target = NoTarget
    /\ ts_connects = <<>>
    /\ ts_sock = "none"
    /\ ts_elapsed = 0
    /\ ts_result = None

Init ==
    /\ pc = "run"
    /\ \E brands \in BrandPools, cfgs \in ConfigLists : MainStart(brands, cfgs)
    /\ TsIdle

(***************************************************************************)
(* V2RayPingTester.run, lines 102-116                                      *)
(***************************************************************************)

\* line 106: executor.submit(self.test_single, config) for the next descriptor
Submit ==
    /\ pc = "run"
    /\ submitted < Len(configs)
    /\ submitted' = submitted + 1
    /\ work_queue' = Append(work_queue, submitted + 1)
    /\ fut' = [fut EXCEPT ![submitted + 1] = "queued"]
    /\ UNCHANGED <<BRANDS_LIST, configs, pc, running, fresult, calls, collected,
                   reachable_configs, main_vars, ts_vars>>

\* a worker thread takes the oldest work item and calls test_single
WorkerStart ==
    /\ pc = "run"
    /\ work_queue # <<>>
    /\ WorkerAvailable(running)
    /\ running' = running \cup {Head(work_queue)}
    /\ work_queue' = Tail(work_queue)
    /\ fut' = [fut EXCEPT ![Head(work_queue)] = "running"]
    /\ calls' = [calls EXCEPT ![Head(work_queue)] = @ + 1]
    /\ UNCHANGED <<BRANDS_LIST, configs, pc, submitted, fresult, collected,
                   reachable_configs, main_vars, ts_vars>>

\* test_single returns on its worker thread and the future is finished
WorkerFinish(k) ==
    /\ pc = "run"
    /\ k \in running
    /\ \E r \in PoolReturns[configs[k]] : fresult' = [fresult EXCEPT ![k] = r]
    /\ fut' = [fut EXCEPT ![k] = "finished"]
    /\ running' = running \ {k}
    /\ UNCHANGED <<BRANDS_LIST, configs, pc, submitted, work_queue, calls, collected,
                   reachable_configs, main_vars, ts_vars>>

\* lines 109-113: as_completed yields a finished future, in no particular order
Collect(k) ==
    /\ pc = "run"
    /\ submitted = Len(configs)
    /\ fut[k] = "finished"
    /\ k \notin collected
    /\ collected' = collected \cup {k}
    /\ reachable_configs' = Accumulate(reachable_configs, fresult[k])
    /\ UNCHANGED <<BRANDS_LIST, configs, pc, submitted, work_queue, running, fut, fresult,
                   calls, main_vars, ts_vars>>

\* a mutant of as_completed_exhausted: the loop left at the first future yielded
first_completed(yielded, futures) == yielded # {} \/ futures = {}

\* line 109: the loop over as_completed(future_to_config) ends when every
\* future of the dict has been yielded
as_completed_exhausted(yielded, futures) == yielded = futures

\* lines 115-116, after the loop and the pool's shutdown: return sorted(...);
\* the list reachable_configs, a local of run, is gone with the call
Return ==
    /\ pc = "run"
    /\ submitted = Len(configs)
    /\ as_completed_exhausted(collected, Indices)
    /\ final_results' = sorted_by_ping(reachable_configs)
    /\ reachable_configs' = <<>>
    /\ pc' = "returned"
    /\ UNCHANGED <<BRANDS_LIST, configs, submitted, work_queue, running, fut, fresult, calls,
                   collected, geo_reader, position, by_country, by_protocol, labels, exc,
                   files, report, ts_vars>>

(***************************************************************************)
(* main, lines 142-196                                                     *)
(***************************************************************************)

\* lines 142-148: the reader is opened if the database file exists
OpenGeo ==
    /\ pc = "returned"
    /\ Truthy(final_results)
    /\ \E exists \in BOOLEAN : geo_reader' = IF exists THEN "open" ELSE "none"
    /\ by_country' = EmptyDict
    /\ by_protocol' = EmptyDict
    /\ position' = 1
    /\ pc' = "label"
    /\ UNCHANGED <<BRANDS_LIST, configs, run_vars, final_results, labels, exc, files, report,
                   ts_vars>>

\* lines 193-196
NothingFound ==
    /\ pc = "returned"
    /\ ~Truthy(final_results)
    /\ report' = "nothing found"
    /\ pc' = "done"
    /\ UNCHANGED <<BRANDS_LIST, configs, run_vars, final_results, geo_reader, position,
                   by_country, by_protocol, labels, exc, files, ts_vars>>

\* lines 149-169: one iteration of the labeling loop that runs to its end
LabelStep ==
    /\ pc = "label"
    /\ position <= Len(final_results)
    /\ \E geo \in GeoCases(geo_reader), b \in 1..Len(BRANDS_LIST), e \in 1..Len(EMOJIS_LIST) :
          LET res          == final_results[position]
              tag          == GeoTag(geo.resolve, geo_reader, geo.lookup)
              new_name     == NewName(tag.flag, tag.country, Rank(position),
                                      BRANDS_LIST[b], EMOJIS_LIST[e])
              named_config == NamedConfig(res.config, new_name)
          IN  /\ ~tag.raised
              /\ final_results' = [final_results EXCEPT ![position].config = named_config]
              /\ by_country' = AppendTo(by_country, tag.country, named_config)
              /\ by_protocol' = AppendTo(by_protocol, Proto(named_config), named_config)
              /\ labels' = Append(labels,
                        [rank |-> Rank(position), position |-> position, geo |-> geo,
                         country |-> tag.country, flag |-> tag.flag,
                         brand |-> BRANDS_LIST[b], emoji |-> EMOJIS_LIST[e],
                         original |-> res.config, ping |-> res.ping, host |-> res.host,
                         named |-> named_config])
    /\ position' = position + 1
    /\ UNCHANGED <<BRANDS_LIST, configs, pc, run_vars, geo_reader, exc, files, report,
                   ts_vars>>

\* lines 149-169: an iteration that an exception leaves: one of the lookup that
\* line 129 does not catch (raised at line 152), or the IndexError of
\* random.choice on an empty list (line 157)
LabelRaise ==
    /\ pc = "label"
    /\ position <= Len(final_results)
    /\ \E geo \in GeoCases(geo_reader) :
          LET tag == GeoTag(geo.resolve, geo_reader, geo.lookup)
          IN  /\ tag.raised \/ BRANDS_LIST = <<>> \/ EMOJIS_LIST = <<>>
              /\ exc' = [line |-> IF tag.raised THEN 152 ELSE 157, geo |-> geo]
    /\ pc' = "raised"
    /\ UNCHANGED <<BRANDS_LIST, configs, run_vars, final_results, geo_reader, position,
                   by_country, by_protocol, labels, files, report, ts_vars>>

\* lines 171-172, after the loop
CloseGeo ==
    /\ pc = "label"
    /\ position > Len(final_results)
    /\ geo_reader' = IF geo_reader = "open" THEN "closed" ELSE geo_reader
    /\ pc' = "write"
    /\ UNCHANGED <<BRANDS_LIST, configs, run_vars, final_results, position, by_country,
                   by_protocol, labels, exc, files, report, ts_vars>>

\* lines 174-192
WriteFiles ==
    /\ pc = "write"
    /\ files' = WrittenFiles(by_country, by_protocol, final_results)
    /\ report' = "saved"
    /\ pc' = "done"
    /\ UNCHANGED <<BRANDS_LIST, configs, run_vars, final_results, geo_reader, position,
                   by_country, by_protocol, labels, exc, ts_vars>>

Next ==
    \/ Submit
    \/ WorkerStart
    \/ \E k \in Indices : WorkerFinish(k)
    \/ \E k \in Indices : Collect(k)
    \/ Return
    \/ OpenGeo
    \/ NothingFound
    \/ LabelStep
    \/ LabelRaise
    \/ CloseGeo
    \/ WriteFiles

Spec == Init /\ [][Next]_vars

(***************************************************************************)
(* run taken to its return, with the threads' progress                     *)
(***************************************************************************)

RunNext ==
    \/ Submit
    \/ WorkerStart
    \/ \E k \in Indices : WorkerFinish(k)
    \/ \E k \in Indices : Collect(k)
    \/ Return

\* The main thread keeps executing run (lines 105-116); the pool hands a queued
\* work item to a free worker; every probe that has started returns: line 94
\* connects with a timeout and lines 97-100 end every other path.
RunFairness ==
    /\ WF_vars(Submit \/ (\E k \in Indices : Collect(k)) \/ Return)
    /\ WF_vars(WorkerStart)
    /\ WF_vars(\E k \in Indices : WorkerFinish(k))

RunSpec == Init /\ [][RunNext]_vars /\ RunFairness

(***************************************************************************)
(* test_single taken alone, on any text                                    *)
(***************************************************************************)

TsInit ==
    /\ pc = "idle"
    /\ MainStart(<<>>, <<>>)
    /\ ts_pc = "call"
    /\ ts_config \in TestInputs
    /\ ts_target = NoTarget
    /\ ts_connects = <<>>
    /\ ts_sock = "none"
    /\ ts_elapsed = 0
    /\ ts_result = None

\* lines 77-91: return None, or go on to the connect with the target
TsParse ==
    /\ ts_pc = "call"
    /\ LET target == ParseTarget(ts_config)
       IN  IF target.kind = "target"
           THEN /\ ts_target' = target
                /\ ts_pc' = "connect"
                /\ UNCHANGED ts_result
           ELSE /\ ts_result' = None
                /\ ts_pc' = "returned"
                /\ UNCHANGED ts_target
    /\ UNCHANGED <<BRANDS_LIST, configs, pc, run_vars, main_vars, ts_config, ts_connects,
                   ts_sock, ts_elapsed>>

\* a mutant of with_exit: the socket used without the with statement of line 94
without_with(sock) == sock

\* line 94: leaving the block of "with ... as sock" closes the socket, whether
\* by the return of line 96 or by an exception
with_exit(sock) == "closed"

\* lines 93-94: socket.create_connection((host, port), ...) is called.  It
\* raises, leaving no socket of its own open, and the call returns None (lines
\* 97-100); or it connects, and the block of the with statement is entered.
\* No connection is made to a port outside 1..65535.
TsConnect ==
    /\ ts_pc = "connect"
    /\ ts_connects' = Append(ts_connects, [host |-> ts_target.host, port |-> ts_target.port])
    /\ \/ /\ ts_result' = None
          /\ ts_pc' = "returned"
          /\ UNCHANGED <<ts_sock, ts_elapsed>>
       \/ /\ ts_target.port >= 1 /\ ts_target.port <= 65535
          /\ ts_sock' = "open"
          /\ ts_elapsed' \in Elapsed
          /\ ts_pc' = "connected"
          /\ UNCHANGED ts_result
    /\ UNCHANGED <<BRANDS_LIST, configs, pc, run_vars, main_vars, ts_config, ts_target>>

\* lines 95-96: the latency is computed and the result built, the block is left
\* and the call returns the result
TsReturn ==
    /\ ts_pc = "connected"
    /\ ts_result' = ProbeResult(ts_config, ts_elapsed, ts_target.host)
    /\ ts_sock' = with_exit(ts_sock)
    /\ ts_pc' = "returned"
    /\ UNCHANGED <<BRANDS_LIST, configs, pc, run_vars, main_vars, ts_config, ts_target,
                   ts_connects, ts_elapsed>>

TsNext == TsParse \/ TsConnect \/ TsReturn

TsSpec == TsInit /\ [][TsNext]_vars

(***************************************************************************)
(* Properties                                                              *)
(***************************************************************************)

\* run has returned
Returned == pc \in {"returned", "label", "write", "done", "raised"}

\* the descriptors whose probe succeeded
Succeeded == {k \in Indices : fresult[k].ok}

\* how many times x occurs in the sequence xs
Count(xs, x) == Cardinality({j \in 1..Len(xs) : xs[j] = x})

\* how many times x occurs in the groups of d, and how many entries d has in all
Occurrences(d, x) == Cardinality({kj \in {<<k, j>> : k \in DOMAIN d, j \in 1..NumConfigs + 1} :
                                    kj[2] <= Len(d[kj[1]]) /\ d[kj[1]][kj[2]] = x})
Entries(d) == Cardinality({kj \in {<<k, j>> : k \in DOMAIN d, j \in 1..NumConfigs + 1} :
                             kj[2] <= Len(d[kj[1]])})

\* the lines of the files of one directory in which x is a line
LinesHolding(dir, x) ==
    {pj \in {<<path, j>> : path \in {q \in DOMAIN files : q[1] = dir}, j \in 1..NumConfigs + 1} :
        LET lines == PySplit(files[pj[1]], Newline)
        IN  pj[2] <= Len(lines) /\ lines[pj[2]] = x}

\* C1: the sequence run returns is sorted by latency ascending: each entry's
\* ping is at most the next entry's
C1_LatencySorted ==
    Returned => \A p \in 1..(Len(final_results) - 1) :
                    final_results[p].ping <= final_results[p + 1].ping

\* run has returned two results of different latency, the faster one being the
\* later one of the input
C1_Witness ==
    /\ pc = "returned"
    /\ \E i, j \in Indices :
          /\ i < j
          /\ fresult[i].ok /\ fresult[j].ok
          /\ fresult[j].ping < fresult[i].ping
          /\ Len(final_results) >= 2
          /\ final_results[1] = fresult[j]

\* the successful results in input order, then sorted by latency: ties in
\* input iteration order
RECURSIVE InInputOrder(_)
InInputOrder(k) ==
    IF k = 0 THEN <<>>
    ELSE IF fresult[k].ok THEN Append(InInputOrder(k - 1), fresult[k]) ELSE InInputOrder(k - 1)

\* C2: the sequence run returns is determined by the probes' outcomes alone:
\* it is the successful results sorted by latency, results of equal latency in
\* input iteration order, whatever the order in which the probes completed
C2_OutputDetermined ==
    pc = "returned" => final_results = SortFrom(<<>>, InInputOrder(Len(configs)))

\* C3: no descriptor is probed twice; an accumulated result is that of a
\* collected, successful probe, once; and when run returns every descriptor
\* has been probed exactly once, its probe has finished, and the sequence
\* returned holds one entry for each successful probe and nothing else
C3_EachProbedOnce ==
    /\ \A k \in Indices : calls[k] <= 1
    /\ pc = "run" =>
          \A k \in Indices :
              Count(reachable_configs, fresult[k]) = IF k \in collected /\ fresult[k].ok THEN 1 ELSE 0
    /\ pc = "run" => Len(reachable_configs) = Cardinality(collected \cap Succeeded)
    /\ Returned => \A k \in Indices : calls[k] = 1 /\ fut[k] = "finished"
    /\ pc = "returned" =>
          /\ \A k \in Succeeded : Count(final_results, fresult[k]) = 1
          /\ Len(final_results) = Cardinality(Succeeded)

\* run has returned after three probes, of which some succeeded and some did not
C3_Witness ==
    /\ pc = "returned"
    /\ Len(configs) >= 3
    /\ Cardinality(Succeeded) >= 2
    /\ Succeeded # Indices

\* C4: at most max_threads probes execute at any time
C4_InFlightBounded == Cardinality(running) <= max_threads

\* the pool is full and a submitted descriptor waits for a worker
C4_Witness == Cardinality(running) = max_threads /\ work_queue # <<>>

\* C5: the iteration at position k of the latency-sorted sequence assigns rank
\* k, so ranks never decrease with latency, and after the loop the ranks
\* assigned are exactly 1..N
C5_RankBijection ==
    /\ \A k \in 1..Len(labels) :
          /\ labels[k].position = k
          /\ labels[k].rank = k
          /\ labels[k].ping = final_results[k].ping
          /\ \A j \in 1..k : labels[j].ping <= labels[k].ping
    /\ pc \in {"write", "done"} /\ report # "nothing found" =>
          /\ Len(labels) = Len(final_results)
          /\ {labels[k].rank : k \in 1..Len(labels)} = 1..Len(final_results)

\* the loop has ended after ranking three results, not all of the same latency
C5_Witness ==
    /\ pc = "write"
    /\ Len(labels) = 3
    /\ labels[1].ping < labels[3].ping

\* C6: after the labeling loop every rewritten descriptor is in one by-country
\* group and in one by-protocol group, once, and the groups hold nothing else;
\* the same holds of the lines of the files written from the groups
C6_GroupingComplete ==
    /\ pc \in {"write", "done"} /\ report # "nothing found" =>
          /\ \A p \in 1..Len(final_results) :
                /\ Occurrences(by_country, final_results[p].config) = 1
                /\ Occurrences(by_protocol, final_results[p].config) = 1
          /\ Entries(by_country) = Len(final_results)
          /\ Entries(by_protocol) = Len(final_results)
    /\ pc = "done" /\ report = "saved" =>
          \A p \in 1..Len(final_results) :
              /\ Cardinality(LinesHolding("regions", final_results[p].config)) = 1
              /\ Cardinality(LinesHolding("filtered/subs", final_results[p].config)) = 1

\* three results have been written, two of them to the same by-country file
\* and two of them to the same by-protocol file, with a second file of each kind
C6_Witness ==
    /\ pc = "done"
    /\ Len(final_results) = 3
    /\ Cardinality(DOMAIN by_country) = 2
    /\ Cardinality(DOMAIN by_protocol) = 2

\* C7: if no probe succeeded, run returns the empty sequence and main writes no
\* file, does not open the lookup database, raises nothing and ends with the
\* nothing-found signal
C7_NothingReachable ==
    Returned /\ Succeeded = {} =>
        /\ final_results = <<>>
        /\ DOMAIN files = {}
        /\ geo_reader = "unopened"
        /\ pc \in {"returned", "done"}
        /\ pc = "done" => report = "nothing found"

\* main has ended after two or more descriptors were probed, one at least by a
\* connect that failed, and none succeeded
C7_Witness ==
    /\ pc = "done"
    /\ Len(configs) >= 2
    /\ Succeeded = {}
    /\ \E k \in Indices : ParseTarget(configs[k]).kind = "target"

\* C8: every target test_single hands to the connect call has a non-empty host
\* and a port in 1..65535
C8_ParserTotality ==
    \A k \in 1..Len(ts_connects) :
        /\ ts_connects[k].host # <<>>
        /\ ts_connects[k].port >= 1
        /\ ts_connects[k].port <= 65535

\* C9: a result whose host name does not resolve during labeling is tagged
\* Unknown, with the globe
C9_UnresolvedIsUnknown ==
    \A k \in 1..Len(labels) :
        labels[k].geo.resolve = "gaierror" => labels[k].country = Unknown /\ labels[k].flag = Globe

\* C10: no outcome of name resolution and lookup among failure to resolve, a
\* miss, an absent database and a country found makes an exception leave main;
\* when main ends having labeled, v2ray/all_sub.txt holds one rewritten
\* descriptor for each result of run, in latency order
C10_GeoNeverAborts ==
    /\ pc = "raised" => exc.line = 157 \/ exc.geo.lookup.kind = "error"
    /\ pc = "done" /\ report = "saved" =>
          /\ Len(labels) = Cardinality(Succeeded)
          /\ \A k \in Succeeded : \E j \in 1..Len(labels) :
                /\ labels[j].original = fresult[k].config
                /\ labels[j].ping = fresult[k].ping
          /\ \A j \in 1..(Len(labels) - 1) : labels[j].ping <= labels[j + 1].ping
          /\ files[<<"v2ray", AllSub>>] = PyJoin(Newline, [j \in 1..Len(labels) |-> labels[j].named])

\* main has ended having labeled a result that did not resolve, one the lookup
\* missed and one with a country found
C10_Witness ==
    /\ pc = "done"
    /\ \E i, j, k \in 1..Len(labels) :
          /\ labels[i].geo.resolve = "gaierror"
          /\ labels[j].geo.lookup.kind = "notfound"
          /\ labels[k].geo.lookup.kind = "country" /\ labels[k].country = US

\* main has ended having labeled two results with no lookup database
C10_WitnessNoDatabase ==
    pc = "done" /\ geo_reader = "none" /\ Len(labels) >= 2

\* C11: the content of base64/all_sub.txt decodes to exactly the bytes of
\* v2ray/all_sub.txt, and both are built from the same rewritten descriptors in
\* the same order
C11_Base64RoundTrip ==
    pc = "done" /\ report = "saved" =>
        /\ b64decode(files[<<"base64", AllSub>>]) = Encode(files[<<"v2ray", AllSub>>])
        /\ files[<<"v2ray", AllSub>>] = PyJoin(Newline, AllFinalLinks(final_results))

\* the two files have been written from three rewritten descriptors whose bytes
\* do not fill the last group of three
C11_Witness ==
    /\ pc = "done"
    /\ report = "saved"
    /\ Len(final_results) = 3
    /\ Len(Encode(files[<<"v2ray", AllSub>>])) % 3 # 0

\* C12: run returns only when every descriptor has been submitted and every
\* probe has finished, none pending or in flight; and, every started probe
\* returning, run does return
C12_RunCompletes ==
    /\ [](Returned => /\ submitted = Len(configs)
                       /\ work_queue = <<>>
                       /\ running = {}
                       /\ \A k \in Indices : fut[k] = "finished")
    /\ <>Returned

\* run has returned after three probes, one of which had waited for a worker
\* while the pool was full; C4_Witness is the state where it waits
C12_Witness ==
    /\ pc = "returned"
    /\ Len(configs) = 3
    /\ max_threads < Len(configs)
    /\ \A k \in Indices : calls[k] = 1

\* C13: when the authority holds "@", the host and port test_single connects to
\* are those of the text after the last "@"
C13_HostAfterLastAt ==
    \A k \in 1..Len(ts_connects) :
        LET host_part == HostPart(ts_config)
        IN  Contains(host_part, <<"@">>) =>
                LET last     == PyRSplit1(host_part, <<"@">>)[2]
                    expected == ParseTarget(SchemeSep \o last)
                IN  /\ expected.kind = "target"
                    /\ ts_connects[k] = [host |-> expected.host, port |-> expected.port]

\* C16: when test_single has returned, no socket of the call is open: none was
\* opened when it returns None, and the one opened was closed when it returns
\* a result
C16_NoSocketLeak ==
    ts_pc = "returned" =>
        /\ ts_sock # "open"
        /\ ts_result.ok => ts_sock = "closed"
        /\ ~ts_result.ok => ts_sock = "none"

\* test_single has returned a result after a connect to a target with credentials
C16_Witness ==
    /\ ts_pc = "returned"
    /\ ts_result.ok
    /\ ts_sock = "closed"
    /\ ts_config = D1

\* C19: the latency of a result is the elapsed time rounded to the nearest
\* millisecond, and is not negative
C19_LatencyNearest ==
    ts_pc = "returned" /\ ts_result.ok =>
        /\ ts_result.ping = (ts_elapsed + 500) \div 1000
        /\ ts_result.ping >= 0

\* C14: every entry of the sequence run returned is, at any later time, a
\* result as test_single created it: same descriptor, latency and host
C14_ResultsUnmodified ==
    Returned => \A p \in 1..Len(final_results) :
                    \E k \in Succeeded : final_results[p] = fresult[k]

\* C15: on every path out of the labeling loop, the one that an exception
\* takes included, a lookup database that was opened has been closed
C15_GeoClosedOnEveryPath ==
    pc \in {"write", "done", "raised"} => geo_reader # "open"

\* C17: every rewritten descriptor is in the by-protocol group whose key is the
\* text of the original descriptor before its first "://"
C17_ProtocolKeyIsScheme ==
    \A j \in 1..Len(labels) :
        LET scheme == PySplit(labels[j].original, SchemeSep)[1]
        IN  /\ scheme \in DOMAIN by_protocol
            /\ \E i \in 1..Len(by_protocol[scheme]) : by_protocol[scheme][i] = labels[j].named

\* xs holds elements of ys only, in the order they have in ys
InOrderOf(xs, ys) ==
    /\ \A a \in 1..Len(xs) : \E i \in 1..Len(ys) : ys[i] = xs[a]
    /\ \A a, b \in 1..Len(xs) :
          a < b => \E i, j \in 1..Len(ys) : i < j /\ ys[i] = xs[a] /\ ys[j] = xs[b]

\* C20: in every by-country and by-protocol group the rewritten descriptors are
\* in strictly increasing rank order, and the lines of every per-country and
\* per-protocol file are lines of v2ray/all_sub.txt in the order they have there
C20_GroupsInRankOrder ==
    /\ \A d \in {by_country, by_protocol} : \A k \in DOMAIN d :
          \A a, b \in 1..Len(d[k]) :
              a < b => \E i, j \in 1..Len(labels) :
                          /\ labels[i].rank < labels[j].rank
                          /\ labels[i].named = d[k][a]
                          /\ labels[j].named = d[k][b]
    /\ pc = "done" /\ report = "saved" =>
          \A path \in DOMAIN files :
              path[1] \in {"regions", "filtered/subs"} =>
                  InOrderOf(PySplit(files[path], Newline),
                            PySplit(files[<<"v2ray", AllSub>>], Newline))

\* the files have been written with a by-country group that holds the results
\* of rank 1 and rank 3 and not the one of rank 2
C20_Witness ==
    /\ pc = "done"
    /\ Len(labels) = 3
    /\ \E k \in DOMAIN by_country :
          by_country[k] = <<labels[1].named, labels[3].named>>

\* C18: every rewritten descriptor is the original's text before its first "#",
\* then "#", then a fragment with no "#" in it that percent-decodes to the
\* flag, a space, the country code, " #", the rank in decimal zero-padded to at
\* least three digits, " |", a brand of the pool, a space and an emoji of the pool.
\* It is stated of the descriptor the loop rewrote last: each one is that in
\* the state its iteration ends in, and labels is only ever appended to.
C18_RewrittenDescriptor ==
    \A j \in {Len(labels)} \ {0} :
        LET parts   == PySplit(labels[j].named, <<"#">>)
            head    == labels[j].flag \o <<" ">> \o labels[j].country \o <<" ", "#">>
            tail    == <<" ", "|">> \o labels[j].brand \o <<" ">> \o labels[j].emoji
            name    == unquote(parts[2])
            digits  == SubSeq(name, Len(head) + 1, Len(name) - Len(tail))
        IN  /\ Len(parts) = 2
            /\ parts[1] = PySplit(labels[j].original, <<"#">>)[1]
            /\ name = head \o digits \o tail
            /\ Len(digits) >= 3
            /\ \A k \in 1..Len(digits) : IsDigit(digits[k])
            /\ Len(digits) > 3 => digits[1] # "0"
            /\ DecVal(digits) = labels[j].rank
            /\ labels[j].rank = j
            /\ \E b \in 1..Len(BRANDS_LIST) : BRANDS_LIST[b] = labels[j].brand
            /\ \E e \in 1..Len(EMOJIS_LIST) : EMOJIS_LIST[e] = labels[j].emoji

\* a descriptor that had a fragment of its own has been rewritten with a
\* country's flag in its name, as the second of the ranking
C18_Witness ==
    \E j \in {Len(labels)} \ {0} :
        /\ labels[j].original = D1
        /\ labels[j].country = US
        /\ labels[j].rank = 2

====
